---- MODULE Spec2Model ----
(***************************************************************************)
(* A model of duped.py: the directory walk (generate_file_list), the       *)
(* concurrent hashing of the build phase (hash_files, build, HashDB) and   *)
(* the keep/delete decision (decider, preprocess, process, delete).        *)
(*                                                                         *)
(* A path is a sequence of one-character strings, so that bytes.startswith *)
(* and the byte-wise ordering used by list.sort are computed, not assumed. *)
(***************************************************************************)
EXTENDS Integers, Sequences, FiniteSets, TLC

(* ------------------------------ bounds --------------------------------- *)
\* largest value of --procs that is explored
MaxProcs == 2
\* largest number of directories given to process / delete on the command line
MaxDeleteArgs == 2

(* --------------------------- bytes and paths --------------------------- *)
\* the byte value of each character that occurs in a hashed path
Ord == ("/" :> 47) @@ ("a" :> 97) @@ ("b" :> 98) @@ ("x" :> 120) @@ ("y" :> 121)

Range(s) == {s[i] : i \in 1..Len(s)}

\* the orderings of a finite set: what iterating a Python set can produce
Orderings(S) ==
    {s \in [1..Cardinality(S) -> S] : \A i, j \in 1..Cardinality(S) : s[i] = s[j] => i = j}

\* bytes.__lt__: lexicographic comparison by byte value
BytesLess(s, t) ==
    \E i \in 1..Len(t) :
        /\ i <= Len(s) + 1
        /\ \A j \in 1..(i - 1) : s[j] = t[j]
        /\ \/ i = Len(s) + 1
           \/ Ord[s[i]] < Ord[t[i]]

\* bytes.startswith
startswith(s, prefix) ==
    /\ Len(prefix) <= Len(s)
    /\ SubSeq(s, 1, Len(prefix)) = prefix

\* os.path.join(path, name) for a relative name
join(path, name) == path \o <<"/">> \o name

\* os.path.abspath on an absolute argument: trailing separators are dropped
RECURSIVE abspath(_)
abspath(p) ==
    IF Len(p) > 1 /\ p[Len(p)] = "/" THEN abspath(SubSeq(p, 1, Len(p) - 1)) ELSE p

\* list.sort on a list of paths (insertion into the sorted tail)
RECURSIVE Insert(_, _)
Insert(x, s) ==
    IF s = <<>> THEN <<x>>
    ELSE IF BytesLess(x, Head(s)) THEN <<x>> \o s
    ELSE <<Head(s)>> \o Insert(x, Tail(s))

sort_unordered(s) == s

RECURSIVE sort(_)
sort(s) == IF s = <<>> THEN <<>> ELSE Insert(Head(s), sort(Tail(s)))

(* ------------------------------ the files ------------------------------ *)
\* the files that the walk of the build phase has discovered
Files == { <<"/", "a", "/", "x">>,
           <<"/", "a", "/", "b", "/", "x">>,
           <<"/", "a", "b", "/", "x">>,
           <<"/", "b", "/", "y">> }

\* the md5 digests that file contents can have
Digests == {"d1", "d2"}

\* the result of hasher when open/read raises
None == "None"

\* the directories that can be named on the command line of process / delete
DeleteArgs == { <<"/", "a">>, <<"/", "a", "/">>, <<"/", "a", "/", "b">>, <<"/", "b">> }

(* ------------------------------ HashDB --------------------------------- *)
add_overwrite(hash_dict, file_hash, filename) ==
    [k \in DOMAIN hash_dict \cup {file_hash} |->
        IF k = file_hash THEN <<filename>> ELSE hash_dict[k]]

\* HashDB.add: setdefault, append, store back
add(hash_dict, file_hash, filename) ==
    LET existing_hash == IF file_hash \in DOMAIN hash_dict THEN hash_dict[file_hash] ELSE <<>>
    IN  [k \in DOMAIN hash_dict \cup {file_hash} |->
            IF k = file_hash THEN Append(existing_hash, filename) ELSE hash_dict[k]]

\* a fresh shelve: no key
EmptyDict == [k \in {} |-> <<>>]

(* ------------------------------ decider -------------------------------- *)
\* the matches of every prefix, one block per prefix, in iteration order
RECURSIVE collect(_, _)
collect(files, delete_list) ==
    IF delete_list = <<>> THEN <<>>
    ELSE LET delete_prefix == Head(delete_list)
             matches(filename) == startswith(filename, delete_prefix)
         IN  SelectSeq(files, matches) \o collect(files, Tail(delete_list))

decide_group_no_survivor(files0, delete_list) ==
    LET files == sort(files0)
        new_delete_files == collect(files, delete_list)
        kept(filename) == filename \notin Range(new_delete_files)
    IN  IF Len(files) > 1
        THEN [keep |-> SelectSeq(files, kept), del |-> new_delete_files]
        ELSE [keep |-> files, del |-> <<>>]

decide_group_single_swapped(files0, delete_list) ==
    LET files == sort(files0)
        new_delete_files == collect(files, delete_list)
        kept(filename) == filename \notin Range(new_delete_files)
        new_keep_files == SelectSeq(files, kept)
    IN  IF Len(files) > 1
        THEN IF new_keep_files = <<>>
             THEN [keep |-> <<new_delete_files[Len(new_delete_files)]>>,
                   del  |-> SubSeq(new_delete_files, 1, Len(new_delete_files) - 1)]
             ELSE [keep |-> new_keep_files, del |-> new_delete_files]
        ELSE [keep |-> <<>>, del |-> files]

decide_group_pop_first(files0, delete_list) ==
    LET files == sort(files0)
        new_delete_files == collect(files, delete_list)
        kept(filename) == filename \notin Range(new_delete_files)
        new_keep_files == SelectSeq(files, kept)
    IN  IF Len(files) > 1
        THEN IF new_keep_files = <<>>
             THEN [keep |-> <<Head(new_delete_files)>>, del |-> Tail(new_delete_files)]
             ELSE [keep |-> new_keep_files, del |-> new_delete_files]
        ELSE [keep |-> files, del |-> <<>>]

\* the body of decider's loop, for one value of hash_dict
decide_group(files0, delete_list) ==
    LET files == sort(files0)
        new_delete_files == collect(files, delete_list)
        kept(filename) == filename \notin Range(new_delete_files)
        new_keep_files == SelectSeq(files, kept)
    IN  IF Len(files) > 1
        THEN IF new_keep_files = <<>>
             THEN [keep |-> <<new_delete_files[Len(new_delete_files)]>>,
                   del  |-> SubSeq(new_delete_files, 1, Len(new_delete_files) - 1)]
             ELSE [keep |-> new_keep_files, del |-> new_delete_files]
        ELSE [keep |-> files, del |-> <<>>]

\* decider: the groups are visited in the order `keys` of hash_dict.values()
RECURSIVE decider(_, _, _)
decider(hash_dict, keys, delete_list) ==
    IF keys = <<>> THEN [keep |-> <<>>, del |-> <<>>]
    ELSE LET g == decide_group(hash_dict[Head(keys)], delete_list)
             rest == decider(hash_dict, Tail(keys), delete_list)
         IN  [keep |-> g.keep \o rest.keep, del |-> g.del \o rest.del]

\* the argument lists that argparse accepts for the dirs of process / delete (nargs='+')
ArgLists == UNION { [1..n -> DeleteArgs] : n \in 1..MaxDeleteArgs }

\* preprocess: the sets of abspath'd directories that the argument lists give
PrefixSets == { {abspath(args_delete[i]) : i \in 1..Len(args_delete)} : args_delete \in ArgLists }


(* --------------------------- the walked tree --------------------------- *)
GitName == <<".", "g", "i", "t">>
TstName == <<"t", "s", "t">>
SrcName == <<"s", "r", "c">>
TopDir  == <<"/", "t">>

\* what os.scandir finds in each directory of the walked tree
Tree ==
    (TopDir :> [dirs |-> {GitName, TstName, SrcName}, files |-> {<<"a">>}])
    @@ (join(TopDir, GitName) :> [dirs |-> {}, files |-> {<<"c">>}])
    @@ (join(TopDir, TstName) :> [dirs |-> {}, files |-> {<<"c">>}])
    @@ (join(TopDir, SrcName) :> [dirs |-> {GitName}, files |-> {<<"a">>, <<"b">>, <<"s">>}])
    @@ (join(join(TopDir, SrcName), GitName) :> [dirs |-> {}, files |-> {<<"c">>}])

\* os.path.islink, and os.path.getsize == 0, on the files of the tree
Links == {join(join(TopDir, SrcName), <<"b">>)}
Empty == {join(join(TopDir, SrcName), <<"s">>)}

\* the directories that can be given to build, and the names that --skip can add
BuildArgs == {TopDir, join(TopDir, SrcName) \o <<"/">>}
SkipArgs == {TstName, SrcName}

\* list.index: the first position of x
index(s, x) == CHOOSE i \in 1..Len(s) : s[i] = x /\ \A j \in 1..(i - 1) : s[j] # x

\* del s[i]
del_at(s, i) == SubSeq(s, 1, i - 1) \o SubSeq(s, i + 1, Len(s))

\* the filter of generate_file_list on one file of a listing
emitted(fullpath, skip_empty) ==
    /\ fullpath \notin Links
    /\ ~(skip_empty /\ fullpath \in Empty)

(* ------------------------------- state --------------------------------- *)
VARIABLES
    pc,           \* the command that runs or has run: walk, build, built, processed, deleted
    procs,        \* args.procs of the running build command
    content,      \* what hasher returns for each file: its digest or None
    submits,      \* how many times each path was handed to executor.submit
    future,       \* the state of the future of each path
    hash_dict,    \* HashDB._hash_dict, the shelve of the work directory
    key_order,    \* the order in which the shelve iterates its keys
    error_list,   \* HashDB._error_list of the running command
    disk,         \* the discovered files that still exist
    prefixes,     \* the set that preprocess builds from args.delete, as it iterates
    keep_list,    \* what preprocess returned to the running command
    delete_list,
    results,      \* the lists that the last process command wrote
    w_pc,         \* where generate_file_list is
    directories,  \* the set of top directories given to generate_file_list
    skip_dirs,
    no_empty,
    tops,         \* the top directories not walked yet
    stack,        \* the directories os.walk has still to list
    path,         \* the directory of the listing that os.walk yielded
    dirs,         \* the list of sub-directories of that listing
    dir_i,        \* the position of the iterator of `for directory in dirs`
    visited,      \* the directories os.walk has listed
    yielded       \* the paths generate_file_list has yielded

hash_vars == <<pc, procs, content, submits, future, hash_dict, key_order, error_list, disk,
               prefixes, keep_list, delete_list, results>>
walk_vars == <<w_pc, directories, skip_dirs, no_empty, tops, stack, path, dirs, dir_i,
               visited, yielded>>
vars == <<hash_vars, walk_vars>>

\* no result file has been written
NoResults == [written |-> FALSE, dirs |-> {}, keep |-> <<>>, delete |-> <<>>, error |-> <<>>]

\* the walk is over and its generator is exhausted
WalkOver ==
    /\ w_pc = "done"
    /\ directories = {}
    /\ skip_dirs = {}
    /\ no_empty = FALSE
    /\ tops = {}
    /\ stack = <<>>
    /\ path = <<>>
    /\ dirs = <<>>
    /\ dir_i = 1
    /\ visited = {}
    /\ yielded = Files

\* the build command has walked, created its work directory and its HashDB
Init ==
    /\ pc = "build"
    /\ procs \in 1..MaxProcs
    /\ content \in [Files -> Digests \cup {None}]
    /\ submits = [f \in Files |-> 0]
    /\ future = [f \in Files |-> "new"]
    /\ hash_dict = EmptyDict
    /\ key_order = <<>>
    /\ error_list = <<>>
    /\ disk = Files
    /\ prefixes = <<>>
    /\ keep_list = <<>>
    /\ delete_list = <<>>
    /\ results = NoResults
    /\ WalkOver

(* ------------------------------ build ---------------------------------- *)
\* the generator of hash_files submits the next path of file_set
Submit(f) ==
    /\ pc = "build"
    /\ future[f] = "new"
    /\ submits' = [submits EXCEPT ![f] = @ + 1]
    /\ future' = [future EXCEPT ![f] = "pending"]
    /\ UNCHANGED <<pc, procs, content, hash_dict, key_order, error_list, disk,
                   prefixes, keep_list, delete_list, results>>
    /\ UNCHANGED walk_vars

\* a free worker process of the pool takes a queued call
WorkerStart(f) ==
    /\ pc = "build"
    /\ future[f] = "pending"
    /\ Cardinality({g \in Files : future[g] = "running"}) < procs
    /\ future' = [future EXCEPT ![f] = "running"]
    /\ UNCHANGED <<pc, procs, content, submits, hash_dict, key_order, error_list, disk,
                   prefixes, keep_list, delete_list, results>>
    /\ UNCHANGED walk_vars

\* hasher returns in the worker: the future completes
WorkerFinish(f) ==
    /\ pc = "build"
    /\ future[f] = "running"
    /\ future' = [future EXCEPT ![f] = "done"]
    /\ UNCHANGED <<pc, procs, content, submits, hash_dict, key_order, error_list, disk,
                   prefixes, keep_list, delete_list, results>>
    /\ UNCHANGED walk_vars

\* as_completed yields a completed future and the body of build's loop runs on it
Collect(f) ==
    /\ pc = "build"
    /\ \A g \in Files : future[g] # "new"
    /\ future[f] = "done"
    /\ future' = [future EXCEPT ![f] = "yielded"]
    /\ LET file_hash == content[f]
       IN  hash_dict' = IF file_hash = None THEN hash_dict ELSE add(hash_dict, file_hash, f)
    /\ UNCHANGED <<pc, procs, content, submits, key_order, error_list, disk,
                   prefixes, keep_list, delete_list, results>>
    /\ UNCHANGED walk_vars

\* every future was yielded: the build command exits and leaves the shelve
BuildDone ==
    /\ pc = "build"
    /\ \A g \in Files : future[g] = "yielded"
    /\ pc' = "built"
    /\ procs' = 0
    /\ key_order' \in Orderings(DOMAIN hash_dict)
    /\ UNCHANGED <<content, submits, future, hash_dict, error_list, disk,
                   prefixes, keep_list, delete_list, results>>
    /\ UNCHANGED walk_vars

(* ------------------------- process and delete -------------------------- *)
\* the process command: a new HashDB on the work directory, preprocess, write_results
Process ==
    /\ pc = "built"
    /\ \E prefix_set \in PrefixSets :
       \E delete_prefixes \in Orderings(prefix_set) :
          LET d == decider(hash_dict, key_order, delete_prefixes)
          IN  /\ prefixes' = delete_prefixes
              /\ keep_list' = d.keep
              /\ delete_list' = d.del
              /\ error_list' = <<>>
              /\ results' = [written |-> TRUE, dirs |-> Range(delete_prefixes),
                             keep |-> d.keep, delete |-> d.del, error |-> <<>>]
    /\ pc' = "processed"
    /\ UNCHANGED <<procs, content, submits, future, hash_dict, key_order, disk>>
    /\ UNCHANGED walk_vars

\* the delete command: a new HashDB, preprocess, os.remove of every listed path
Delete ==
    /\ pc \in {"built", "processed"}
    /\ \E prefix_set \in PrefixSets :
       \E delete_prefixes \in Orderings(prefix_set) :
          LET d == decider(hash_dict, key_order, delete_prefixes)
          IN  /\ prefixes' = delete_prefixes
              /\ keep_list' = d.keep
              /\ delete_list' = d.del
              /\ error_list' = <<>>
              /\ disk' = disk \ Range(d.del)
    /\ pc' = "deleted"
    /\ UNCHANGED <<procs, content, submits, future, hash_dict, key_order, results>>
    /\ UNCHANGED walk_vars

Next ==
    \/ \E f \in Files : Submit(f)
    \/ \E f \in Files : WorkerStart(f)
    \/ \E f \in Files : WorkerFinish(f)
    \/ \E f \in Files : Collect(f)
    \/ BuildDone
    \/ Process
    \/ Delete

Spec == Init /\ [][Next]_vars

(* ------------------------- generate_file_list -------------------------- *)
\* build has computed the arguments of generate_file_list; nothing is hashed yet
InitWalk ==
    /\ pc = "walk"
    /\ procs \in 1..MaxProcs
    /\ content = [f \in Files |-> None]
    /\ submits = [f \in Files |-> 0]
    /\ future = [f \in Files |-> "new"]
    /\ hash_dict = EmptyDict
    /\ key_order = <<>>
    /\ error_list = <<>>
    /\ disk = Files
    /\ prefixes = <<>>
    /\ keep_list = <<>>
    /\ delete_list = <<>>
    /\ results = NoResults
    /\ w_pc = "top"
    /\ \E args_directories \in SUBSET BuildArgs :
          /\ args_directories # {}
          /\ directories = {abspath(d) : d \in args_directories}
    /\ tops = directories
    /\ \E args_skip \in SUBSET SkipArgs : skip_dirs = {GitName} \cup args_skip
    /\ no_empty \in BOOLEAN
    /\ stack = <<>>
    /\ path = <<>>
    /\ dirs = <<>>
    /\ dir_i = 1
    /\ visited = {}
    /\ yielded = {}

\* `for topdir in directories`: os.walk starts on the next top directory
WalkTop(topdir) ==
    /\ w_pc = "top"
    /\ topdir \in tops
    /\ tops' = tops \ {topdir}
    /\ stack' = <<topdir>>
    /\ w_pc' = "walk"
    /\ UNCHANGED <<directories, skip_dirs, no_empty, path, dirs, dir_i, visited, yielded>>
    /\ UNCHANGED hash_vars

\* os.walk lists the next directory and yields (path, dirs, filenames)
WalkList ==
    /\ w_pc = "walk"
    /\ stack # <<>>
    /\ path' = Head(stack)
    /\ stack' = Tail(stack)
    /\ dirs' \in Orderings(Tree[Head(stack)].dirs)
    /\ dir_i' = 1
    /\ visited' = visited \cup {Head(stack)}
    /\ w_pc' = "prune"
    /\ UNCHANGED <<directories, skip_dirs, no_empty, tops, yielded>>
    /\ UNCHANGED hash_vars

\* one pass of the body of `for directory in dirs`
PruneStep ==
    /\ w_pc = "prune"
    /\ dir_i <= Len(dirs)
    /\ LET directory == dirs[dir_i]
       IN  dirs' = IF directory \in skip_dirs THEN del_at(dirs, index(dirs, directory)) ELSE dirs
    /\ dir_i' = dir_i + 1
    /\ UNCHANGED <<w_pc, directories, skip_dirs, no_empty, tops, stack, path, visited, yielded>>
    /\ UNCHANGED hash_vars

\* the iterator of dirs is exhausted: `for filename in filenames` yields the files,
\* then os.walk resumes and schedules the directories left in dirs
YieldFiles ==
    /\ w_pc = "prune"
    /\ dir_i > Len(dirs)
    /\ yielded' = yielded \cup
           {abspath(join(path, filename)) : filename \in
               {fn \in Tree[path].files : emitted(abspath(join(path, fn)), no_empty)}}
    /\ stack' = [i \in 1..Len(dirs) |-> join(path, dirs[i])] \o stack
    /\ w_pc' = "walk"
    /\ UNCHANGED <<directories, skip_dirs, no_empty, tops, path, dirs, dir_i, visited>>
    /\ UNCHANGED hash_vars

\* os.walk of the current top directory is exhausted
WalkReturn ==
    /\ w_pc = "walk"
    /\ stack = <<>>
    /\ w_pc' = "top"
    /\ UNCHANGED <<directories, skip_dirs, no_empty, tops, stack, path, dirs, dir_i,
                   visited, yielded>>
    /\ UNCHANGED hash_vars

\* every top directory was walked: set(file_list) is complete
WalkDone ==
    /\ w_pc = "top"
    /\ tops = {}
    /\ w_pc' = "done"
    /\ UNCHANGED <<directories, skip_dirs, no_empty, tops, stack, path, dirs, dir_i,
                   visited, yielded>>
    /\ UNCHANGED hash_vars

NextWalk ==
    \/ \E topdir \in BuildArgs \cup {abspath(d) : d \in BuildArgs} : WalkTop(topdir)
    \/ WalkList
    \/ PruneStep
    \/ YieldFiles
    \/ WalkReturn
    \/ WalkDone

SpecWalk == InitWalk /\ [][NextWalk]_vars

TypeOK ==
    /\ pc \in {"walk", "build", "built", "processed", "deleted"}
    /\ DOMAIN hash_dict \subseteq Digests
    /\ w_pc \in {"top", "walk", "prune", "done"}

(* ------------------------------ properties ----------------------------- *)
\* a process or delete command has run decider
Decided == pc \in {"processed", "deleted"}

\* the members of the group of digest k
Members(k) == Range(hash_dict[k])

\* every member of the group of k starts with one of the delete prefixes
AllMatched(k) ==
    \A m \in Members(k) : \E i \in 1..Len(prefixes) : startswith(m, prefixes[i])

\* how many times x occurs in s
Count(s, x) == Cardinality({i \in 1..Len(s) : s[i] = x})

\* the indexes that hold the same groups as hash_dict, appended in any arrival order
Rearrangements ==
    {h \in [DOMAIN hash_dict -> UNION {Orderings(Members(k)) : k \in DOMAIN hash_dict}] :
        \A k \in DOMAIN hash_dict : Range(h[k]) = Members(k)}

\* directory d is an ancestor of path p
Inside(d, p) == startswith(p, d \o <<"/">>)

\* C1: after decider, every hash group has a member that is absent from the delete
\* list, and the delete command leaves at least one file of every group on disk.
C1_EveryGroupSurvives ==
    /\ Decided => \A k \in DOMAIN hash_dict :
                     \E m \in Members(k) : m \notin Range(delete_list)
    /\ pc = "deleted" => \A k \in DOMAIN hash_dict : \E m \in Members(k) : m \in disk

\* C2: for every hash group the keep list contains at least one member, every member
\* is in the keep list or in the delete list, and the two lists hold no other path.
C2_KeepAndCover ==
    Decided =>
        /\ \A k \in DOMAIN hash_dict :
              /\ Range(keep_list) \cap Members(k) # {}
              /\ (Range(keep_list) \cup Range(delete_list)) \cap Members(k) = Members(k)
        /\ Range(keep_list) \cup Range(delete_list)
              \subseteq UNION {Members(k) : k \in DOMAIN hash_dict}

\* C2 witness: decider has run on a group of two or more members that all match a prefix
C2_Witness ==
    /\ Decided
    /\ \E k \in DOMAIN hash_dict : Len(hash_dict[k]) >= 2 /\ AllMatched(k)

\* C3: the member of a hash group of one is in the keep list and not in the delete
\* list, whatever the delete prefixes are.
C3_SingleKept ==
    Decided =>
        \A k \in DOMAIN hash_dict :
            Len(hash_dict[k]) = 1 =>
                /\ hash_dict[k][1] \in Range(keep_list)
                /\ hash_dict[k][1] \notin Range(delete_list)

\* C3 witness: decider has run on a group of one whose member starts with a prefix
C3_Witness ==
    /\ Decided
    /\ \E k \in DOMAIN hash_dict : Len(hash_dict[k]) = 1 /\ AllMatched(k)

\* C4: a path whose hashing failed is in the error list when the build ends and in the
\* error list that process writes, and it is in no hash group.
C4_ErrorsRecorded ==
    \A f \in Files :
        content[f] = None =>
            /\ pc = "built" => f \in Range(error_list)
            /\ results.written => f \in Range(results.error)
            /\ \A k \in DOMAIN hash_dict : f \notin Members(k)

\* C5: generate_file_list never lists a sub-directory whose basename is in the skip
\* set, and never yields a file located under such a sub-directory.
C5_SkippedNeverEntered ==
    \A d \in DOMAIN Tree :
        \A name \in Tree[d].dirs :
            name \in skip_dirs /\ join(d, name) \notin directories =>
                /\ join(d, name) \notin visited
                /\ \A p \in yielded : ~Inside(join(d, name), p)

\* C6: an index that holds the same groups in another arrival order gives, for the
\* same delete prefixes, the same keep set and the same delete set.
C6_ArrivalOrderIndependent ==
    Decided =>
        \A h \in Rearrangements :
            LET d == decider(h, key_order, prefixes)
            IN  /\ Range(d.keep) = Range(keep_list)
                /\ Range(d.del) = Range(delete_list)

\* C6 witness: decider has run on an all-matched group that arrived out of sorted order
C6_Witness ==
    /\ Decided
    /\ \E k \in DOMAIN hash_dict :
          /\ Len(hash_dict[k]) >= 2
          /\ hash_dict[k] # sort(hash_dict[k])
          /\ AllMatched(k)

\* C7: with a single delete prefix, a group of n >= 2 members that all start with it
\* keeps exactly its greatest path and has its other n-1 members in the delete list.
C7_AllMatchedKeepsGreatest ==
    Decided /\ Len(prefixes) = 1 =>
        \A k \in DOMAIN hash_dict :
            Len(hash_dict[k]) >= 2 /\ AllMatched(k) =>
                LET greatest == CHOOSE m \in Members(k) :
                                    \A o \in Members(k) \ {m} : BytesLess(o, m)
                IN  /\ Range(keep_list) \cap Members(k) = {greatest}
                    /\ Count(keep_list, greatest) = 1
                    /\ Range(delete_list) \cap Members(k) = Members(k) \ {greatest}
                    /\ \A m \in Members(k) \ {greatest} : Count(delete_list, m) = 1

\* C7 witness: decider has run with one prefix on a group of three that all match it
C7_Witness ==
    /\ Decided
    /\ Len(prefixes) = 1
    /\ \E k \in DOMAIN hash_dict : Len(hash_dict[k]) >= 3 /\ AllMatched(k)

\* C8: every path of the delete list belongs to a group of at least two members and
\* has one of the given delete directories as an ancestor.
C8_DeleteOnlyInsideDirs ==
    Decided =>
        \A p \in Range(delete_list) :
            /\ \E k \in DOMAIN hash_dict : p \in Members(k) /\ Len(hash_dict[k]) >= 2
            /\ \E i \in 1..Len(prefixes) : Inside(prefixes[i], p)

\* C9: no path is submitted twice; a result that build's loop has consumed is in the
\* index; when the build has finished every path was submitted once and every hashed
\* path is once in the group of its digest and in no other group.
C9_HashedOnce ==
    /\ \A f \in Files : submits[f] <= 1
    /\ \A f \in Files :
          future[f] = "yielded" /\ content[f] # None =>
              content[f] \in DOMAIN hash_dict /\ f \in Members(content[f])
    /\ pc \in {"built", "processed", "deleted"} =>
          \A f \in Files :
              /\ submits[f] = 1
              /\ content[f] # None =>
                    /\ content[f] \in DOMAIN hash_dict
                    /\ \A k \in DOMAIN hash_dict :
                          Count(hash_dict[k], f) = (IF k = content[f] THEN 1 ELSE 0)

\* C9 witness: the build has finished with a group whose paths arrived out of sorted
\* order and with a path whose hashing failed
C9_Witness ==
    /\ pc = "built"
    /\ \E k \in DOMAIN hash_dict : Len(hash_dict[k]) >= 2 /\ hash_dict[k] # sort(hash_dict[k])
    /\ \E f \in Files : content[f] = None

\* C10: every iteration order of the set of delete prefixes gives the keep set and the
\* delete set of the command that ran, and a delete command removes exactly the paths
\* that the earlier process command listed for the same directories.
C10_PrefixOrderIndependent ==
    /\ Decided =>
          \A o \in Orderings(Range(prefixes)) :
              LET d == decider(hash_dict, key_order, o)
              IN  /\ Range(d.keep) = Range(keep_list)
                  /\ Range(d.del) = Range(delete_list)
    /\ pc = "deleted" /\ results.written /\ results.dirs = Range(prefixes) =>
          Files \ disk = Range(results.delete)

====
